---- MODULE Spec2Model ----
(***************************************************************************)
(* Model of app.py: the BCV rate service.  Rates are held in hundredths    *)
(* (0.01 is 1), percentages as exact fractions <<n, d>> of hundredths of a *)
(* percent (1.94 % is <<194, 1>>), calendar dates as day numbers (day 0 is *)
(* a Monday), the time of day as minutes after midnight.                   *)
(***************************************************************************)
EXTENDS Integers, Sequences, FiniteSets, TLC

VARIABLES
    db,                          \* TRUE: firestore.client(); FALSE: db = None
    latest_rates,                \* document current_rates/latest_rates, or NoDoc
    historical_rates,            \* collection historical_rates: set of documents
    current_rates_in_memory,     \* module global
    historical_rates_in_memory,  \* module global, a sequence of entries
    day, tod,                    \* datetime.now(VENEZUELA_TZ)
    outages,                     \* Firestore outages so far (bounds the model)
    booted,                      \* the module has been imported (line 432 ran)
    pc, loc,                     \* per job thread: position and locals
    last                         \* history variable: the handler that ran last

vars == <<db, latest_rates, historical_rates, current_rates_in_memory,
          historical_rates_in_memory, day, tod, outages, booted, pc, loc, last>>

-----------------------------------------------------------------------------
(* Program constants *)

DEFAULT_USD_RATE == 1
DEFAULT_EUR_RATE == 1
FIXED_UT_RATE == 4300
HistoryLimit == 15
SimulatedDays == 15
CleanupDays == 15
early_morning_scrape_minutes == {1, 2, 4, 6, 8, 10}

(* Bounds of the model *)

FirstDay == 4
NumDays == 2
MaxOutages == 1

LastDay == FirstDay + NumDays - 1
\* the instants of a day the model samples: 00:01 and 00:02 (cron slots) and
\* 01:00 (the cleanup slot, and no refresh slot)
TimesOfDay == {1, 60}
JobTimes == {1, 2}
Threads == {1, 2}

NoRate == -1            \* Python None for a rate that was not extracted
NoDoc == [exists |-> FALSE]

-----------------------------------------------------------------------------
(* Arithmetic *)

Abs(n) == IF n < 0 THEN -n ELSE n

RECURSIVE Gcd(_, _)
Gcd(a, b) == IF b = 0 THEN a ELSE Gcd(b, a % b)

\* the exact value n/d, d # 0, in lowest terms with a positive denominator
Frac(n, d) ==
    LET g == Gcd(Abs(n), Abs(d))
        s == IF d < 0 THEN -1 ELSE 1
    IN  <<(s * n) \div g, (s * d) \div g>>

Zero == <<0, 1>>

\* ((new - previous) / previous) * 100, in hundredths of a percent, unrounded
PercentChange(new, previous) == Frac(10000 * (new - previous), previous)

\* round(x, 2): to the nearest hundredth, ties to even
Round2(p) ==
    LET q == p[1] \div p[2]
        r == p[1] % p[2]
    IN  IF 2 * r < p[2] THEN <<q, 1>>
        ELSE IF 2 * r > p[2] THEN <<q + 1, 1>>
        ELSE IF q % 2 = 0 THEN <<q, 1>> ELSE <<q + 1, 1>>

-----------------------------------------------------------------------------
(* Clock *)

Hour(t) == t \div 60
Minute(t) == t % 60
Now == [day |-> day, tod |-> tod]

\* strftime("%Y-%m-%d %H:%M:%S"), with the " (predeterminado)" suffix or without
Stamp(now, pred) == [day |-> now.day, tod |-> now.tod, predeterminado |-> pred]

is_scheduled_early_morning_call(now) ==
    Hour(now.tod) = 0 /\ Minute(now.tod) \in early_morning_scrape_minutes

MonToFri(d) == d % 7 \in 0..4

-----------------------------------------------------------------------------
(* Module globals as first built.  scraped_on is a history annotation that   *)
(* the program does not hold: the day on which the record's usd and eur     *)
(* were extracted from the source, NoDay for the placeholder rates.  It     *)
(* travels with the record and the program never reads it.                  *)

NoDay == FirstDay - 1

DefaultRates(now) ==
    [usd |-> DEFAULT_USD_RATE,
     eur |-> DEFAULT_EUR_RATE,
     ut |-> FIXED_UT_RATE,
     last_updated |-> Stamp(now, TRUE),
     usd_change_percent |-> Zero,
     eur_change_percent |-> Zero,
     rates_effective_date |-> now.day,
     scraped_on |-> NoDay]

-----------------------------------------------------------------------------
(* Firestore: document current_rates/latest_rates and collection           *)
(* historical_rates, whose documents carry their id and their fields       *)

\* dict.update(loaded_data): the keys of the document replace those in memory
DictUpdate(d, loaded) ==
    [k \in DOMAIN d \cup DOMAIN loaded |->
        IF k \in DOMAIN loaded THEN loaded[k] ELSE d[k]]

\* doc.to_dict()
ToDict(doc) == [date_ymd |-> doc.date_ymd, usd |-> doc.usd, eur |-> doc.eur]

\* collection.document(id).set(data)
DocSet(coll, id, data) ==
    {d \in coll : d.id # id}
        \cup {[id |-> id, date_ymd |-> data.date_ymd, usd |-> data.usd, eur |-> data.eur]}

\* collection.document(id).update({usd, eur})
DocUpdate(coll, id, usd, eur) ==
    {IF d.id = id THEN [d EXCEPT !.usd = usd, !.eur = eur] ELSE d : d \in coll}

DocExists(coll, id) == \E d \in coll : d.id = id

\* order_by('date_ymd', DESCENDING)
RECURSIVE Docs(_)
Docs(S) ==
    IF S = {} THEN <<>>
    ELSE LET x == CHOOSE x \in S : TRUE IN <<x>> \o Docs(S \ {x})

Later(a, b) == a.date_ymd > b.date_ymd

OrderDesc(S) == SortSeq(Docs(S), Later)

\* the query without its limit
Limit_Unbounded(s, n) == s

\* limit(15)
Limit(s, n) == IF Len(s) <= n THEN s ELSE SubSeq(s, 1, n)

\* save_current_rates_to_firestore(data): up is "db is set and the call succeeds"
save_current_rates_to_firestore(doc, data, up) == IF up THEN data ELSE doc

\* the entry stored under an id Firestore generates instead of under its date
save_historical_rate_AutoId(coll, data, up) ==
    IF up THEN DocSet(coll, 1000 + Cardinality(coll), data) ELSE coll

\* save_historical_rate_to_firestore(data)
save_historical_rate_to_firestore(coll, data, up) ==
    IF up THEN DocSet(coll, data.date_ymd, data) ELSE coll

RECURSIVE SaveAll(_, _, _)
SaveAll(coll, entries, up) ==
    IF entries = <<>> THEN coll
    ELSE SaveAll(save_historical_rate_to_firestore(coll, Head(entries), up),
                 Tail(entries), up)

\* The world a handler acts on: the store and the module globals
World == [snap |-> latest_rates, hist |-> historical_rates,
          mem |-> current_rates_in_memory, memHist |-> historical_rates_in_memory]

\* the simulated history of lines 105-117: entry i is dated today - i; sim[1]
\* is the random pair drawn for today's entry, sim[2] the one for older entries
SimulatedHistory(now, sim) ==
    [i \in 1..SimulatedDays |->
        [date_ymd |-> now.day - (i - 1),
         usd |-> IF i = 1 THEN sim[1].usd ELSE sim[2].usd,
         eur |-> IF i = 1 THEN sim[1].eur ELSE sim[2].eur]]

\* the load that saves the snapshot in memory before it reads the stored one
load_rates_SaveFirst(w, now, up, sim) ==
    IF ~up THEN w
    ELSE
      LET docs == Limit(OrderDesc(w.hist), HistoryLimit)
          loaded == [i \in 1..Len(docs) |-> ToDict(docs[i])]
          simulated == SimulatedHistory(now, sim)
      IN  [snap |-> save_current_rates_to_firestore(w.snap, w.mem, up),
           hist |-> IF loaded # <<>> THEN w.hist ELSE SaveAll(w.hist, simulated, up),
           mem |-> w.mem,
           memHist |-> IF loaded # <<>> THEN loaded ELSE simulated]

\* load_rates_from_firestore()
load_rates_from_firestore(w, now, up, sim) ==
    IF ~up THEN w
    ELSE
      LET mem1 == IF w.snap # NoDoc THEN DictUpdate(w.mem, w.snap) ELSE w.mem
          snap1 == IF w.snap # NoDoc THEN w.snap
                   ELSE save_current_rates_to_firestore(w.snap, w.mem, up)
          docs == Limit(OrderDesc(w.hist), HistoryLimit)
          loaded == [i \in 1..Len(docs) |-> ToDict(docs[i])]
      IN  IF loaded # <<>>
          THEN [snap |-> snap1, hist |-> w.hist, mem |-> mem1, memHist |-> loaded]
          ELSE LET simulated == SimulatedHistory(now, sim)
               IN  [snap |-> snap1, hist |-> SaveAll(w.hist, simulated, up),
                    mem |-> mem1, memHist |-> simulated]

\* cleanup_old_historical_rates()
cleanup_old_historical_rates(coll, now, up) ==
    IF ~up THEN coll
    ELSE {d \in coll : ~(d.date_ymd < now.day - CleanupDays)}

-----------------------------------------------------------------------------
(* fetch_and_update_bcv_rates_firestore, phase by phase.  w is the world,  *)
(* l the locals of the invocation, f what requests.get and the extraction  *)
(* produced: an exception, or the page's usd and eur (NoRate where the     *)
(* anchor was not found) and the value date the page publishes.            *)

\* the skip with the early-morning test inverted
SkipScraping_EarlyOnly(mem, today, early) ==
    /\ mem.rates_effective_date = today
    /\ (mem.usd # DEFAULT_USD_RATE \/ mem.eur # DEFAULT_EUR_RATE)
    /\ early

\* lines 223-226: the rates for today are already fixed
SkipScraping(mem, today, early) ==
    /\ mem.rates_effective_date = today
    /\ (mem.usd # DEFAULT_USD_RATE \/ mem.eur # DEFAULT_EUR_RATE)
    /\ ~early

\* lines 236-242: position of the latest history entry that is not today's, or 0
PreviousDayEntry(h, today) ==
    IF \E i \in 1..Len(h) : h[i].date_ymd # today
    THEN CHOOSE i \in 1..Len(h) :
            /\ h[i].date_ymd # today
            /\ \A j \in 1..(i - 1) : h[j].date_ymd = today
    ELSE 0

\* lines 205-247
RefreshBegin(w, now, up, sim) ==
    LET w1 == load_rates_from_firestore(w, now, up, sim)
        early == is_scheduled_early_morning_call(now)
        i == PreviousDayEntry(w1.memHist, now.day)
    IN  [w |-> w1,
         skip |-> SkipScraping(w1.mem, now.day, early),
         l |-> [now |-> now,
                previous_usd_rate_for_calc |->
                    IF i # 0 THEN w1.memHist[i].usd ELSE w1.mem.usd,
                previous_eur_rate_for_calc |->
                    IF i # 0 THEN w1.memHist[i].eur ELSE w1.mem.eur,
                usd_rate |-> NoRate,
                eur_rate |-> NoRate]]

\* lines 258-325: the rates of this run and their unrounded percentages
Extracted(f) == f.usd # NoRate /\ f.eur # NoRate

RatesOfRun(mem, f) ==
    IF Extracted(f) THEN [usd |-> f.usd, eur |-> f.eur]
    ELSE [usd |-> mem.usd, eur |-> mem.eur]

ChangePercent(rate, previous) ==
    IF previous # 0 /\ rate # NoRate THEN PercentChange(rate, previous) ELSE Zero

\* the update that stamps the snapshot with the value date the page publishes
UpdateMemory_PageDate(w, l, f) ==
    LET r == RatesOfRun(w.mem, f)
    IN  [w |-> [w EXCEPT !.mem =
                  DictUpdate(w.mem,
                    [usd |-> r.usd,
                     eur |-> r.eur,
                     ut |-> FIXED_UT_RATE,
                     last_updated |-> Stamp(l.now, FALSE),
                     usd_change_percent |->
                         Round2(ChangePercent(r.usd, l.previous_usd_rate_for_calc)),
                     eur_change_percent |->
                         Round2(ChangePercent(r.eur, l.previous_eur_rate_for_calc)),
                     rates_effective_date |-> f.fecha,
                     scraped_on |-> IF Extracted(f) THEN l.now.day
                                    ELSE w.mem.scraped_on])],
         l |-> [l EXCEPT !.usd_rate = r.usd, !.eur_rate = r.eur]]

\* lines 329-337: current_rates_in_memory.update({...})
UpdateMemory(w, l, f) ==
    LET r == RatesOfRun(w.mem, f)
    IN  [w |-> [w EXCEPT !.mem =
                  DictUpdate(w.mem,
                    [usd |-> r.usd,
                     eur |-> r.eur,
                     ut |-> FIXED_UT_RATE,
                     last_updated |-> Stamp(l.now, FALSE),
                     usd_change_percent |->
                         Round2(ChangePercent(r.usd, l.previous_usd_rate_for_calc)),
                     eur_change_percent |->
                         Round2(ChangePercent(r.eur, l.previous_eur_rate_for_calc)),
                     rates_effective_date |-> l.now.day,
                     scraped_on |-> IF Extracted(f) THEN l.now.day
                                    ELSE w.mem.scraped_on])],
         l |-> [l EXCEPT !.usd_rate = r.usd, !.eur_rate = r.eur]]

\* line 341
SaveSnapshot(w, up) ==
    [w EXCEPT !.snap = save_current_rates_to_firestore(w.snap, w.mem, up)]

\* line 344: the rates were replaced by the loaded ones at lines 310-311
HistoryGuard(l) == l.usd_rate # NoRate /\ l.eur_rate # NoRate

\* lines 345-362, when Firestore answers
UpdateHistory(w, l) ==
    LET today == l.now.day
    IN  [w EXCEPT !.hist =
            IF ~DocExists(w.hist, today)
            THEN save_historical_rate_to_firestore(w.hist,
                    [date_ymd |-> today, usd |-> l.usd_rate, eur |-> l.eur_rate], TRUE)
            ELSE DocUpdate(w.hist, today, l.usd_rate, l.eur_rate)]

\* the except clauses, lines 369-424: all five have the same body
Handler(w, l, up) ==
    LET m == [w.mem EXCEPT
                !.usd_change_percent =
                    IF w.mem.usd # NoRate /\ l.previous_usd_rate_for_calc # 0
                    THEN PercentChange(w.mem.usd, l.previous_usd_rate_for_calc)
                    ELSE Zero,
                !.eur_change_percent =
                    IF w.mem.eur # NoRate /\ l.previous_eur_rate_for_calc # 0
                    THEN PercentChange(w.mem.eur, l.previous_eur_rate_for_calc)
                    ELSE Zero]
    IN  [w EXCEPT !.mem = m,
                  !.snap = save_current_rates_to_firestore(w.snap, m, up)]

\* lines 249-424 after the decision to scrape
TryBlock(w, l, now, up, f, sim) ==
    IF f.kind # "page" THEN Handler(w, l, up)
    ELSE LET c == UpdateMemory(w, l, f)
             w2 == SaveSnapshot(c.w, up)
         IN  IF ~HistoryGuard(c.l) THEN w2
             ELSE IF ~up THEN Handler(w2, c.l, up)   \* line 345 or 346 raises
             ELSE load_rates_from_firestore(UpdateHistory(w2, c.l), now, up, sim)

\* what an invocation that scrapes did, for the history variables
Outcome(f) ==
    IF f.kind # "page" THEN "error"
    ELSE IF Extracted(f) THEN "scraped" ELSE "fallback"

\* Exceptions.  What the try block raises, if anything: the failure of the
\* request or of the conversion, or at lines 345-361 (calls on db outside the
\* save functions, which swallow their own) AttributeError when db is None and
\* an error of the Firestore client when the call fails
RaisedInTry(l, up, f) ==
    IF f.kind # "page" THEN f.kind
    ELSE IF HistoryGuard(l) /\ ~up
         THEN (IF db THEN "GoogleAPIError" ELSE "AttributeError")
         ELSE "none"

\* the exception classes above and their base classes
Bases(e) ==
    CASE e = "Timeout" -> {"Timeout", "RequestException", "Exception"}
      [] e = "GoogleAPIError" -> {"GoogleAPIError", "Exception"}
      [] OTHER -> {e, "Exception"}

\* the except clauses without AttributeError and the catch-all
except_clauses_Requests == <<"Timeout", "RequestException", "ValueError">>

\* lines 369, 381, 392, 403, 414: the except clauses in order
except_clauses ==
    <<"Timeout", "RequestException", "AttributeError", "ValueError", "Exception">>

\* the first clause that catches e, or 0
Clause(e) ==
    IF \E i \in 1..Len(except_clauses) : except_clauses[i] \in Bases(e)
    THEN CHOOSE i \in 1..Len(except_clauses) :
            /\ except_clauses[i] \in Bases(e)
            /\ \A j \in 1..(i - 1) : except_clauses[j] \notin Bases(e)
    ELSE 0

\* lines 372, 376: the test under which a handler divides by the reference
Divides(rate, previous) == rate # NoRate /\ previous # 0

\* a handler raises ZeroDivisionError, which no clause catches any more
HandlerRaises(mem, l) ==
    \/ Divides(mem.usd, l.previous_usd_rate_for_calc)
          /\ l.previous_usd_rate_for_calc = 0
    \/ Divides(mem.eur, l.previous_eur_rate_for_calc)
          /\ l.previous_eur_rate_for_calc = 0

\* an exception leaves the invocation that decided to scrape: one that no
\* clause catches, or one raised by the handler itself
Escapes(w, l, up, f) ==
    LET c == IF f.kind = "page" THEN UpdateMemory(w, l, f) ELSE [w |-> w, l |-> l]
        e == RaisedInTry(c.l, up, f)
    IN  e # "none" /\ (Clause(e) = 0 \/ HandlerRaises(c.w.mem, c.l))

\* one whole invocation: the world it leaves, and what it did
Refresh(w, now, up, f, sim) ==
    LET b == RefreshBegin(w, now, up, sim)
    IN  IF b.skip THEN [w |-> b.w, res |-> "skipped"]
        ELSE [w |-> TryBlock(b.w, b.l, now, up, f, sim),
              res |-> IF Escapes(b.w, b.l, up, f) THEN "raised" ELSE Outcome(f)]

-----------------------------------------------------------------------------
(* Inputs *)

\* what a page can show: both rates, none, or one of them
PageRates == {<<1, 1>>, <<7, 9>>, <<NoRate, NoRate>>, <<7, NoRate>>}

\* the random simulated rates (usd in -0.24..0.26, eur in -0.29..0.31), one draw
\* for today's entry and one for the rest
SimulatedRates == {[usd |-> 0, eur |-> 3]}
Sims == {<<s, s>> : s \in SimulatedRates}

\* a load draws random numbers only where it simulates the history
SimDraws(coll, up) ==
    IF up /\ coll = {} THEN Sims ELSE {CHOOSE s \in Sims : TRUE}

Failures == {"Timeout", "RequestException", "ValueError"}

Fetches(now) ==
    {[kind |-> k, usd |-> NoRate, eur |-> NoRate, fecha |-> now.day] : k \in Failures}
    \cup {[kind |-> "page", usd |-> r[1], eur |-> r[2], fecha |-> now.day] :
            r \in PageRates}
    \cup {[kind |-> "page", usd |-> r[1], eur |-> r[2], fecha |-> now.day + 1] :
            r \in {p \in PageRates : p[1] # NoRate /\ p[2] # NoRate}}

NoFetch == [kind |-> "none", usd |-> NoRate, eur |-> NoRate, fecha |-> 0]

IdleLoc == [l |-> [now |-> [day |-> 0, tod |-> 0],
                   previous_usd_rate_for_calc |-> 0,
                   previous_eur_rate_for_calc |-> 0,
                   usd_rate |-> NoRate, eur_rate |-> NoRate],
            up |-> FALSE,
            f |-> NoFetch]

-----------------------------------------------------------------------------
(* The state machine, each handler one step *)

\* the record of a handler's run: which handler, on which day, whether Firestore
\* answered, and for a refresh what it did and what the source gave it
Did(op, res, up, f) ==
    [op |-> op, res |-> res, up |-> up,
     day |-> IF op = "init" THEN 0 ELSE day,
     f |-> IF res \in {"none", "skipped"} THEN NoFetch ELSE f]

Init ==
    /\ db \in BOOLEAN
    /\ latest_rates = NoDoc
    /\ historical_rates = {}
    /\ day = FirstDay
    /\ tod \in TimesOfDay
    /\ current_rates_in_memory = DefaultRates([day |-> day, tod |-> tod])
    /\ historical_rates_in_memory = <<>>
    /\ booted = FALSE
    /\ outages = 0
    /\ pc = [t \in Threads |-> "idle"]
    /\ loc = [t \in Threads |-> IdleLoc]
    /\ last = Did("init", "none", FALSE, NoFetch)

\* whether Firestore answers during an invocation; an outage makes every call
\* of the invocation raise
FirestoreUp == IF db /\ outages < MaxOutages THEN BOOLEAN ELSE {TRUE}
Outage(fs) == outages' = IF fs THEN outages ELSE outages + 1

Idle == \A t \in Threads : pc[t] = "idle"

SetWorld(w) ==
    /\ latest_rates' = w.snap
    /\ historical_rates' = w.hist
    /\ current_rates_in_memory' = w.mem
    /\ historical_rates_in_memory' = w.memHist



\* lines 55-64 and 432: the process starts, the globals are built and the first
\* refresh runs before the scheduler and the server exist
Startup ==
    \E fs \in FirestoreUp, f \in Fetches(Now) : \E sim \in SimDraws(historical_rates, db /\ fs) :
        LET w0 == [World EXCEPT !.mem = DefaultRates(Now), !.memHist = <<>>]
            r == Refresh(w0, Now, db /\ fs, f, sim)
        IN  /\ Idle
            /\ SetWorld(r.w)
            /\ Outage(fs)
            /\ booted' = TRUE
            /\ last' = Did("startup", r.res, db /\ fs, f)
            /\ UNCHANGED <<db, day, tod, pc, loc>>

\* lines 436-441: the cron jobs
CronMinutes == {1, 2, 4, 6, 8, 10}
CronRefreshDue == MonToFri(day) /\ Hour(tod) = 0 /\ Minute(tod) \in CronMinutes

ScheduledRefresh ==
    \E fs \in FirestoreUp, f \in Fetches(Now) : \E sim \in SimDraws(historical_rates, db /\ fs) :
        LET r == Refresh(World, Now, db /\ fs, f, sim)
        IN  /\ booted /\ Idle
            /\ CronRefreshDue
            /\ SetWorld(r.w)
            /\ Outage(fs)
            /\ last' = Did("scheduled", r.res, db /\ fs, f)
            /\ UNCHANGED <<db, day, tod, booted, pc, loc>>

\* line 445: the cleanup job, daily at 01:00
CleanupDue == Hour(tod) = 1 /\ Minute(tod) = 0

Cleanup ==
    \E fs \in FirestoreUp :
        /\ booted
        /\ CleanupDue
        /\ Outage(fs)
        /\ historical_rates' = cleanup_old_historical_rates(historical_rates, Now, db /\ fs)
        /\ last' = Did("cleanup", "none", db /\ fs, NoFetch)
        /\ UNCHANGED <<db, latest_rates, current_rates_in_memory,
                       historical_rates_in_memory, day, tod, booted, pc, loc>>

\* lines 457-461
get_current_bcv_rates ==
    \E fs \in FirestoreUp : \E sim \in SimDraws(historical_rates, db /\ fs) :
        /\ booted
        /\ LET w == load_rates_from_firestore(World, Now, db /\ fs, sim) IN SetWorld(w)
        /\ Outage(fs)
        /\ last' = Did("read", "none", db /\ fs, NoFetch)
        /\ UNCHANGED <<db, day, tod, booted, pc, loc>>

\* lines 463-467
get_bcv_history ==
    \E fs \in FirestoreUp : \E sim \in SimDraws(historical_rates, db /\ fs) :
        /\ booted
        /\ LET w == load_rates_from_firestore(World, Now, db /\ fs, sim) IN SetWorld(w)
        /\ Outage(fs)
        /\ last' = Did("read", "none", db /\ fs, NoFetch)
        /\ UNCHANGED <<db, day, tod, booted, pc, loc>>

\* the clock moves on, within the day or to a later day
Tick ==
    /\ \/ \E t \in TimesOfDay : t > tod /\ tod' = t /\ day' = day
       \/ day < LastDay /\ day' = day + 1 /\ tod' \in TimesOfDay
    /\ UNCHANGED <<db, latest_rates, historical_rates, current_rates_in_memory,
                   historical_rates_in_memory, outages, booted, pc, loc, last>>

Next ==
    \/ Startup
    \/ ScheduledRefresh
    \/ Cleanup
    \/ get_current_bcv_rates
    \/ get_bcv_history
    \/ Tick

Spec == Init /\ [][Next]_vars

-----------------------------------------------------------------------------
(* The same refresh run by the scheduler's pool threads, statement by       *)
(* statement where it touches the globals or the store: the job of 00:01    *)
(* runs on thread 1 and the job of 00:02 on thread 2 (each job runs at most *)
(* one instance at a time, different jobs share nothing but the pool).      *)

JobMinute(t) == t
JobDue(t) == MonToFri(day) /\ Hour(tod) = 0 /\ Minute(tod) = JobMinute(t)

At(t, p) == pc' = [pc EXCEPT ![t] = p]
\* the job's run of this day is over
Finish(t) ==
    /\ pc' = [pc EXCEPT ![t] = "done"]
    /\ loc' = [loc EXCEPT ![t] = IdleLoc]
    /\ last' = Did("scheduled", Outcome(loc[t].f), loc[t].up, loc[t].f)

\* lines 205-247
JobBegin(t) ==
    \E fs \in FirestoreUp : \E sim \in SimDraws(historical_rates, db /\ fs) :
        LET b == RefreshBegin(World, Now, db /\ fs, sim)
        IN  /\ booted /\ pc[t] = "idle"
            /\ JobDue(t)
            /\ SetWorld(b.w)
            /\ Outage(fs)
            /\ IF b.skip
               THEN /\ At(t, "done")
                    /\ UNCHANGED loc
                    /\ last' = Did("scheduled", "skipped", db /\ fs, NoFetch)
               ELSE /\ At(t, "fetch")
                    /\ loc' = [loc EXCEPT ![t] = [l |-> b.l, up |-> db /\ fs, f |-> NoFetch]]
                    /\ UNCHANGED last
            /\ UNCHANGED <<db, day, tod, booted>>

\* lines 249-337: the request returns, the rates are extracted, the globals updated
JobFetch(t) ==
    \E f \in Fetches(loc[t].l.now) :
        /\ pc[t] = "fetch"
        /\ IF f.kind # "page"
           THEN /\ At(t, "except")
                /\ loc' = [loc EXCEPT ![t].f = f]
                /\ UNCHANGED <<latest_rates, historical_rates, current_rates_in_memory,
                               historical_rates_in_memory>>
           ELSE LET c == UpdateMemory(World, loc[t].l, f)
                IN  /\ At(t, "save")
                    /\ loc' = [loc EXCEPT ![t].f = f, ![t].l = c.l]
                    /\ SetWorld(c.w)
        /\ UNCHANGED <<db, day, tod, outages, booted, last>>

\* line 341
JobSave(t) ==
    /\ pc[t] = "save"
    /\ LET w == SaveSnapshot(World, loc[t].up) IN SetWorld(w)
    /\ IF HistoryGuard(loc[t].l)
       THEN At(t, "history") /\ UNCHANGED <<loc, last>>
       ELSE Finish(t)
    /\ UNCHANGED <<db, day, tod, outages, booted>>

\* lines 344-362
JobHistory(t) ==
    /\ pc[t] = "history"
    /\ IF loc[t].up
       THEN /\ LET w == UpdateHistory(World, loc[t].l) IN SetWorld(w)
            /\ At(t, "reload")
       ELSE /\ At(t, "except")
            /\ UNCHANGED <<latest_rates, historical_rates, current_rates_in_memory,
                           historical_rates_in_memory>>
    /\ UNCHANGED <<db, day, tod, outages, booted, loc, last>>

\* line 365
JobReload(t) ==
    \E sim \in SimDraws(historical_rates, loc[t].up) :
        /\ pc[t] = "reload"
        /\ LET w == load_rates_from_firestore(World, Now, loc[t].up, sim) IN SetWorld(w)
        /\ Finish(t)
        /\ UNCHANGED <<db, day, tod, outages, booted>>

\* lines 369-424
JobExcept(t) ==
    /\ pc[t] = "except"
    /\ LET w == Handler(World, loc[t].l, loc[t].up) IN SetWorld(w)
    /\ Finish(t)
    /\ UNCHANGED <<db, day, tod, outages, booted>>

\* the clock moves from one cron slot to the next while jobs run
JobTick ==
    /\ \E t \in JobTimes : t > tod /\ tod' = t
    /\ UNCHANGED <<db, latest_rates, historical_rates, current_rates_in_memory,
                   historical_rates_in_memory, day, outages, booted, pc, loc, last>>

JobInit == Init /\ tod \in JobTimes

JobNext ==
    \/ Startup
    \/ \E t \in Threads :
          \/ JobBegin(t)
          \/ JobFetch(t)
          \/ JobSave(t)
          \/ JobHistory(t)
          \/ JobReload(t)
          \/ JobExcept(t)
    \/ get_current_bcv_rates
    \/ get_bcv_history
    \/ JobTick

JobSpec == JobInit /\ [][JobNext]_vars

-----------------------------------------------------------------------------
(* Properties *)

Refreshes == {"startup", "scheduled"}

\* a step in which a refresh ran (or nothing happened at all)
RefreshStep == last'.op \in Refreshes /\ day' = day /\ tod' = tod
\* a step in which a read endpoint ran (or nothing happened at all)
ReadStep == last'.op = "read" /\ day' = day /\ tod' = tod

Ids(coll) == {d.id : d \in coll}
Today(coll, d) == {e \in coll : e.date_ymd = d}

\* C1: the persisted history never holds two entries with the same date_ymd, and
\* a refresh that scraped and reached Firestore leaves exactly one entry for its
\* date, carrying the rates it scraped (a re-run updates that entry in place).
C1_HistoryUnique ==
    /\ \A a, b \in historical_rates : a.date_ymd = b.date_ymd => a = b
    /\ (last.op \in Refreshes /\ last.res = "scraped" /\ last.up) =>
          /\ Cardinality(Today(historical_rates, last.day)) = 1
          /\ \A e \in Today(historical_rates, last.day) :
                e.usd = last.f.usd /\ e.eur = last.f.eur

\* a refresh scraped over a store that held only the simulated history, whose
\* entry for the day it therefore updated in place
C1_Witness ==
    /\ last.op \in Refreshes /\ last.res = "scraped" /\ last.up
    /\ Cardinality(historical_rates) = SimulatedDays
    /\ \E e \in historical_rates :
          e.date_ymd = last.day /\ e.usd = last.f.usd /\ e.eur = last.f.eur

C3_StoredHistoryCapped == Cardinality(historical_rates) <= HistoryLimit

MemDates == {historical_rates_in_memory[i].date_ymd :
                i \in 1..Len(historical_rates_in_memory)}

\* C3 as amended: the history in memory (what the endpoints serve), once loaded
\* by a read or a refresh that reached Firestore, holds at most HistoryLimit
\* entries, in descending date order, and they are the most recent dates of the
\* stored collection: exactly HistoryLimit of them once the collection holds
\* more.  The stored collection itself is not capped by count.
C3_LoadedHistoryCapped ==
    (last.op \in Refreshes \cup {"read"} /\ last.up) =>
        LET h == historical_rates_in_memory
            n == Cardinality(historical_rates)
        IN  /\ Len(h) = IF n > HistoryLimit THEN HistoryLimit ELSE n
            /\ \A i \in 1..(Len(h) - 1) : h[i].date_ymd > h[i + 1].date_ymd
            /\ \A i \in 1..Len(h) : \E d \in historical_rates : ToDict(d) = h[i]
            /\ \A d \in historical_rates :
                  d.date_ymd \notin MemDates =>
                      \A m \in MemDates : d.date_ymd < m

\* more than HistoryLimit distinct dates are stored and a load has served the
\* HistoryLimit most recent
C3_Witness ==
    /\ last.op \in Refreshes \cup {"read"} /\ last.up
    /\ Cardinality(historical_rates) > HistoryLimit
    /\ Len(historical_rates_in_memory) = HistoryLimit

\* C4: a refresh that fails (the request raises, a rate cannot be parsed, an
\* anchor is not found) leaves usd, eur, rates_effective_date and last_updated
\* of the persisted snapshot as they were.
C4_FailedRunKeepsSnapshot ==
    [][(/\ RefreshStep
        /\ last'.res \in {"error", "fallback"}
        /\ latest_rates # NoDoc)
       => /\ latest_rates'.usd = latest_rates.usd
          /\ latest_rates'.eur = latest_rates.eur
          /\ latest_rates'.rates_effective_date = latest_rates.rates_effective_date
          /\ latest_rates'.last_updated = latest_rates.last_updated]_vars

\* C5: a refresh is skipped only when the snapshot holds rates that were scraped
\* on that very day; a run that obtained nothing never makes a later run of the
\* day skip.
C5_SkipOnlyAfterScrape ==
    (last.op \in Refreshes /\ last.res = "skipped") =>
        current_rates_in_memory.scraped_on = last.day

\* C6: a refresh whose source publishes rates with a value date after today
\* leaves usd, eur and rates_effective_date of the persisted snapshot as they
\* were.
C6_FutureDatedNotAdopted ==
    [][(/\ RefreshStep
        /\ last'.res = "scraped" /\ last'.up
        /\ last'.f.fecha > day
        /\ latest_rates # NoDoc)
       => /\ latest_rates'.usd = latest_rates.usd
          /\ latest_rates'.eur = latest_rates.eur
          /\ latest_rates'.rates_effective_date = latest_rates.rates_effective_date]_vars

\* the reference entry of the latest refresh: the first entry of the history in
\* memory that is not of the run's day (0: there is none)
RefOfRun == PreviousDayEntry(historical_rates_in_memory, last.day)

\* C7: after a refresh that was not skipped, the percentage is 0.0 when the
\* reference value is 0, and 0.0 when the history offers no reference at all.
C7_ZeroPercent ==
    (last.op \in Refreshes /\ last.res # "skipped") =>
        LET m == current_rates_in_memory
            h == historical_rates_in_memory
        IN  /\ (RefOfRun # 0 /\ h[RefOfRun].usd = 0) => m.usd_change_percent = Zero
            /\ (RefOfRun # 0 /\ h[RefOfRun].eur = 0) => m.eur_change_percent = Zero
            /\ RefOfRun = 0 => m.usd_change_percent = Zero /\ m.eur_change_percent = Zero

\* C8: after a refresh that persisted the snapshot, the persisted percentages are
\* the change against the first history entry that is not of the run's day,
\* rounded to 2 decimals.
C8_PercentRounded ==
    (/\ last.op \in Refreshes /\ last.res # "skipped" /\ last.up
     /\ RefOfRun # 0) =>
        LET h == historical_rates_in_memory
            ref == h[RefOfRun]
        IN  /\ ref.usd # 0 =>
                latest_rates.usd_change_percent =
                    Round2(PercentChange(latest_rates.usd, ref.usd))
            /\ ref.eur # 0 =>
                latest_rates.eur_change_percent =
                    Round2(PercentChange(latest_rates.eur, ref.eur))

\* C9 as claimed: the read endpoints change neither the persisted snapshot nor
\* the persisted history; entries appear only in refresh runs and disappear only
\* in the cleanup.
C9_ReadsChangeNothing ==
    [][/\ ReadStep =>
            latest_rates' = latest_rates /\ historical_rates' = historical_rates
       /\ Ids(historical_rates') \ Ids(historical_rates) # {} => last'.op \in Refreshes
       /\ Ids(historical_rates) \ Ids(historical_rates') # {} => last'.op = "cleanup"
      ]_vars

\* C9 as amended: the read endpoints change neither a persisted snapshot that
\* exists nor a persisted history that is not empty (over an empty store their
\* load writes the placeholder snapshot and the simulated history); entries are
\* added to a history that is not empty only by refresh runs, and entries
\* disappear only in the cleanup.
C9_ReadsChangeNoData ==
    [][/\ ReadStep =>
            /\ latest_rates # NoDoc => latest_rates' = latest_rates
            /\ historical_rates # {} => historical_rates' = historical_rates
       /\ (historical_rates # {} /\ Ids(historical_rates') \ Ids(historical_rates) # {})
             => last'.op \in Refreshes
       /\ Ids(historical_rates) \ Ids(historical_rates') # {} => last'.op = "cleanup"
      ]_vars

\* a read was served from a store that holds scraped rates, which it did not write
C9_Witness ==
    /\ last.op = "read" /\ last.up
    /\ latest_rates # NoDoc
    /\ latest_rates.scraped_on # NoDay
    /\ current_rates_in_memory = latest_rates
    /\ Cardinality(historical_rates) > SimulatedDays

\* C11: no refresh invocation lets an exception out: whatever the request, the
\* extraction or Firestore raise (db = None included), a clause catches it and
\* the handler completes.
C11_NoExceptionEscapes ==
    last.op \in Refreshes => last.res \in {"skipped", "scraped", "fallback", "error"}

\* a refresh ran without Firestore (db = None): it scraped both rates, line 345
\* raised AttributeError, and the handler completed over the scraped rates
C11_Witness ==
    /\ ~db
    /\ last.op \in Refreshes /\ last.res = "scraped"
    /\ current_rates_in_memory.usd = last.f.usd
    /\ current_rates_in_memory.eur = last.f.eur
    /\ current_rates_in_memory.scraped_on = last.day

\* the source gave exactly one of the two rates
Partial(f) == f.kind = "page" /\ (f.usd = NoRate) # (f.eur = NoRate)

\* C12: a refresh whose page yields exactly one of the two rates is treated as
\* an extraction error: the persisted snapshot keeps both its rates (none is
\* replaced alone), and, as after any failed run, its rates_effective_date and
\* last_updated, and the persisted history is left as it was.
C12_PartialIsError ==
    [][(/\ RefreshStep
        /\ last'.res # "skipped" /\ Partial(last'.f)
        /\ latest_rates # NoDoc /\ historical_rates # {})
       => /\ latest_rates'.usd = latest_rates.usd
          /\ latest_rates'.eur = latest_rates.eur
          /\ latest_rates'.rates_effective_date = latest_rates.rates_effective_date
          /\ latest_rates'.last_updated = latest_rates.last_updated
          /\ historical_rates' = historical_rates]_vars

\* C13: the persisted snapshot, once written, is never removed, and no step of
\* any handler (refresh, read, cleanup) replaces it by one whose
\* rates_effective_date is earlier; nor is the stored date ever after today.
C13_EffectiveDateMonotone ==
    [][latest_rates # NoDoc =>
          /\ latest_rates' # NoDoc
          /\ latest_rates'.rates_effective_date >= latest_rates.rates_effective_date
          /\ latest_rates'.rates_effective_date <= day']_vars

\* the snapshot was written on the first day (that day's history entry was
\* written by a refresh, after its save of the snapshot) and a refresh of a
\* later day has replaced it with that day's date
C13_Witness ==
    /\ day > FirstDay
    /\ last.op \in Refreshes /\ last.res # "skipped" /\ last.up
    /\ latest_rates # NoDoc
    /\ latest_rates.rates_effective_date = day
    /\ \E d \in historical_rates : d.date_ymd = FirstDay /\ d.usd = 7

\* C14: a refresh that did not scrape both rates (it fell back to the loaded or
\* placeholder rates, or it failed) neither writes nor updates an entry of the
\* persisted history.
C14_FallbackWritesNoHistory ==
    [][(/\ RefreshStep
        /\ last'.res \in {"fallback", "error"}
        /\ historical_rates # {})
       => historical_rates' = historical_rates]_vars

\* one job thread has completed its run of the day and the other has not begun
\* its own, so that only read requests ran beside it
RanAlone(t) == pc[t] = "done" /\ \A u \in Threads \ {t} : pc[u] = "idle"

\* C15: when a scheduled refresh that scraped both rates and reached Firestore
\* has completed, with only read requests running beside it, the persisted
\* snapshot holds the scraped usd and eur, and so does today's history entry.
C15_ScrapedRatesCommitted ==
    (/\ \E t \in Threads : RanAlone(t)
     /\ last.op = "scheduled" /\ last.res = "scraped" /\ last.up) =>
        /\ latest_rates # NoDoc
        /\ latest_rates.usd = last.f.usd
        /\ latest_rates.eur = last.f.eur
        /\ \E e \in Today(historical_rates, day) :
              e.usd = latest_rates.usd /\ e.eur = latest_rates.eur

\* C10: no two refresh invocations are at once between having read the snapshot
\* and having committed it.
InRun(t) == pc[t] \in {"fetch", "save", "except"}

C10_MutualExclusion ==
    \A t1, t2 \in Threads : (t1 # t2) => ~(InRun(t1) /\ InRun(t2))

====
